---- MODULE Spec2Model ----
\* A model of the Field2D grid (src/src/field2d.rs) and of the heightmap
\* shortest-path search built on it (src/src/bin/day12.rs).
\*
\* Coordinates are pairs <<x, y>>, zero-based as in the source. A Vec is a
\* sequence; Vec index i is sequence index i + 1. An Option is a sequence of
\* length at most one: <<>> is None, <<v>> is Some(v).
EXTENDS Integers, Sequences, FiniteSets, TLC

\* ------------------------------------------------------------------ bounds

\* Heightmaps drawn directly hold at most this many cells.
MaxCells == 4
\* Elevations of the heightmaps drawn directly range over 0..MaxElevation.
MaxElevation == 2
\* Number of path_search calls made on one heightmap.
MaxRuns == 2
\* Text inputs: the sum over the lines of (1 + line length) is at most this.
MaxInputSize == 4
\* Field2D constructors are called with width and height up to this.
MaxDim == 2
\* Number of mutating calls made on one Field2D.
MaxOps == 2

\* The grids a NeighborIter is made for are up to MaxIterDim x MaxIterDim, the
\* origins up to (MaxIterDim, MaxIterDim): an interior cell exists, and so do
\* origins outside every grid.
MaxIterDim == 3

\* The next() calls made on one NeighborIter: all 8 neighbours and two more.
MaxNextCalls == 10

\* The length of the instruction lists given to day10's run_program.
MaxProgramLen == 4

\* The length of the Direction sequences given to one simulate_movement call.
MaxDirs == 4

\* day09 part2: the steps of the head the movement instructions add up to;
\* the tenth knot first moves at the head's tenth step in one direction.
MaxHeadSteps == 20

\* day11: the number of turns followed, and the largest worry level the
\* reference game is followed to.
MaxTurns == 5

MaxWorry == 40000

\* ------------------------------------------------------- machine integers

\* usize::MAX. The source's usize is 64 bits wide; the model keeps the same
\* arithmetic on a 16 bit word, which is far above every cost a bounded grid
\* can produce and inside TLC's integer range.
UsizeMax == 65535

\* a + b and a - b as a release build computes them, wrapping around; a debug
\* build panics where they wrap.
UsizeAdd(a, b) == (a + b) % (UsizeMax + 1)

UsizeSub(a, b) == (a - b + UsizeMax + 1) % (UsizeMax + 1)

\* ------------------------------------------------------------ call results

None == <<>>

Some(v) == <<v>>

\* The outcome of a call that may panic.
Returned(v) == [tag |-> "returned", val |-> v]

Panicked == [tag |-> "panicked", val |-> 0]

\* ============================================================== Field2D ==

\* struct Field2D { values, width }
Field2D(values, width) == [values |-> values, width |-> width]

Width(f) == f.width

\* height() divides by width: it panics on a grid of width 0.
HeightPanics(f) == f.width = 0

Height(f) == Len(f.values) \div f.width

\* len() = width() * height()
FieldLen(f) == Width(f) * Height(f)

NewWithValue(width, height, value) ==
    Field2D([i \in 1..(width * height) |-> value], width)

\* add_row with T::default() = 0
AddRow(f) == Field2D(f.values \o [i \in 1..Width(f) |-> 0], f.width)

RECURSIVE AddRows(_, _)
AddRows(f, n) == IF n = 0 THEN f ELSE AddRows(AddRow(f), n - 1)

NewEmpty(width, height) == AddRows(Field2D(<<>>, width), height)

\* Vec::extend, once per parsed row, in row order.
RECURSIVE ExtendAll(_, _)
ExtendAll(res, parsed) ==
    IF parsed = <<>> THEN res
    ELSE ExtendAll(res \o Head(parsed), Tail(parsed))

\* The width is taken after every row was appended.
ParseMutantLateWidth(parsed) ==
    IF parsed = <<>> THEN None
    ELSE LET all == ExtendAll(<<>>, parsed)
         IN Some(Field2D(all, Len(all)))

\* A first row without values is taken for an empty input.
ParseMutantRejectsEmptyFirst(parsed) ==
    IF parsed = <<>> \/ Head(parsed) = <<>> THEN None
    ELSE LET first == ExtendAll(<<>>, <<Head(parsed)>>)
             width == Len(first)
         IN Some(Field2D(ExtendAll(first, Tail(parsed)), width))

\* parse(rows, parser), `parsed` being what the parser yields for each row, in
\* row order: None on an empty row sequence; otherwise the width is the
\* length of the first parsed row and every later row is appended as it is.
Parse(parsed) ==
    IF parsed = <<>> THEN None
    ELSE LET first == ExtendAll(<<>>, <<Head(parsed)>>)
             width == Len(first)
         IN Some(Field2D(ExtendAll(first, Tail(parsed)), width))

\* The two assertions of index / index_mut, in the order the code makes them.
IndexPanics(f, index) ==
    \/ ~(index[1] < Width(f))
    \/ HeightPanics(f)
    \/ ~(index[2] < Height(f))

\* index without its first assertion: only y and the Vec's own bound are
\* checked.
IndexMutantNoXCheck(f, index) ==
    IF HeightPanics(f) \/ ~(index[2] < Height(f))
          \/ ~(index[1] + index[2] * Width(f) < Len(f.values))
    THEN Panicked
    ELSE Returned(f.values[index[1] + index[2] * Width(f) + 1])

\* index((x, y)) -> &values[x + y * width]
Index(f, index) ==
    IF IndexPanics(f, index) THEN Panicked
    ELSE Returned(f.values[index[1] + index[2] * Width(f) + 1])

\* index_mut with the two coordinates taken the other way round.
IndexAssignMutantTransposed(f, index, value) ==
    IF IndexPanics(f, index) THEN Panicked
    ELSE Returned(Field2D(
             [f.values EXCEPT ![index[2] + index[1] * Width(f) + 1] = value],
             f.width))

\* index_mut((x, y)) followed by the assignment of value through the
\* reference: the grid after the assignment, or a panic.
IndexAssign(f, index, value) ==
    IF IndexPanics(f, index) THEN Panicked
    ELSE Returned(Field2D(
             [f.values EXCEPT ![index[1] + index[2] * Width(f) + 1] = value],
             f.width))

\* The position is taken column-major: (idx / width, idx % width).
IterWithPositionMutantTransposed(f) ==
    [k \in 1..Len(f.values) |->
        << <<(k - 1) \div Width(f), (k - 1) % Width(f)>>, f.values[k] >>]

\* iter_with_position(): ((idx % width, idx / width), value) for every idx
IterWithPosition(f) ==
    [k \in 1..Len(f.values) |->
        << <<(k - 1) % Width(f), (k - 1) \div Width(f)>>, f.values[k] >>]

\* --------------------------------------------------------- NeighborIter --

NeighborIterStates ==
    {"Right", "Down", "Left", "Up",
     "UpLeft", "UpRight", "DownRight", "DownLeft", "Done"}

\* neighbors / neighbors_diag build the iterator from the grid's dimensions.
NewNeighborIter(f, x, y, diag) ==
    [field_size |-> <<Width(f), Height(f)>>, pos |-> <<x, y>>,
     diag |-> diag, state |-> "Right"]

Dx(state) ==
    IF state \in {"Right", "UpRight", "DownRight"} THEN 1
    ELSE IF state \in {"Left", "UpLeft", "DownLeft"} THEN -1
    ELSE 0

Dy(state) ==
    IF state \in {"Up", "UpLeft", "UpRight"} THEN -1
    ELSE IF state \in {"Down", "DownLeft", "DownRight"} THEN 1
    ELSE 0

\* cur() without the clip at the right edge.
CurMutantNoRightClip(it) ==
    IF it.state = "Done" THEN None
    ELSE IF Dx(it.state) = -1 /\ it.pos[1] = 0 THEN None
    ELSE IF Dy(it.state) = -1 /\ it.pos[2] = 0 THEN None
    ELSE IF Dy(it.state) = 1 /\ it.pos[2] = UsizeSub(it.field_size[2], 1)
         THEN None
    ELSE Some(<<it.pos[1] + Dx(it.state), it.pos[2] + Dy(it.state)>>)

\* cur(): the coordinate in the current direction, None when it is clipped.
Cur(it) ==
    IF it.state = "Done" THEN None
    ELSE IF Dx(it.state) = -1 /\ it.pos[1] = 0 THEN None
    ELSE IF Dx(it.state) = 1 /\ it.pos[1] = UsizeSub(it.field_size[1], 1)
         THEN None
    ELSE IF Dy(it.state) = -1 /\ it.pos[2] = 0 THEN None
    ELSE IF Dy(it.state) = 1 /\ it.pos[2] = UsizeSub(it.field_size[2], 1)
         THEN None
    ELSE Some(<<it.pos[1] + Dx(it.state), it.pos[2] + Dy(it.state)>>)

\* advance() going from UpLeft straight to DownRight.
AdvanceMutantSkipsUpRight(it) ==
    [it EXCEPT !.state =
        CASE it.state = "Right" -> "Down"
          [] it.state = "Down" -> "Left"
          [] it.state = "Left" -> "Up"
          [] it.state = "Up" -> IF it.diag THEN "UpLeft" ELSE "Done"
          [] it.state = "UpLeft" -> "DownRight"
          [] it.state = "UpRight" -> "DownRight"
          [] it.state = "DownRight" -> "DownLeft"
          [] it.state = "DownLeft" -> "Done"
          [] it.state = "Done" -> "Done"]

\* advance() taking left before down.
AdvanceMutantLeftFirst(it) ==
    [it EXCEPT !.state =
        CASE it.state = "Right" -> "Left"
          [] it.state = "Left" -> "Down"
          [] it.state = "Down" -> "Up"
          [] it.state = "Up" -> IF it.diag THEN "UpLeft" ELSE "Done"
          [] it.state = "UpLeft" -> "UpRight"
          [] it.state = "UpRight" -> "DownRight"
          [] it.state = "DownRight" -> "DownLeft"
          [] it.state = "DownLeft" -> "Done"
          [] it.state = "Done" -> "Done"]

Advance(it) ==
    [it EXCEPT !.state =
        CASE it.state = "Right" -> "Down"
          [] it.state = "Down" -> "Left"
          [] it.state = "Left" -> "Up"
          [] it.state = "Up" -> IF it.diag THEN "UpLeft" ELSE "Done"
          [] it.state = "UpLeft" -> "UpRight"
          [] it.state = "UpRight" -> "DownRight"
          [] it.state = "DownRight" -> "DownLeft"
          [] it.state = "DownLeft" -> "Done"
          [] it.state = "Done" -> "Done"]

\* Iterator::next(): <<item, iterator after the call>>
RECURSIVE IterNext(_)
IterNext(it) ==
    IF it.state = "Done" THEN <<None, it>>
    ELSE IF Cur(it) # None THEN <<Cur(it), Advance(it)>>
    ELSE IterNext(Advance(it))

\* cur() computes field_size - 1 in usize: with overflow checks (a debug
\* build) the subtraction panics on a size of 0, without them it wraps. The
\* subtraction is reached only past the `dx == 1` / `dy == 1` tests, and the
\* one on the height only when the column was not clipped.
CurPanics(it, overflow_checks) ==
    /\ overflow_checks
    /\ it.state # "Done"
    /\ \/ Dx(it.state) = 1 /\ it.field_size[1] = 0
       \/ /\ ~(Dx(it.state) = -1 /\ it.pos[1] = 0)
          /\ ~(Dx(it.state) = 1 /\ it.pos[1] = UsizeSub(it.field_size[1], 1))
          /\ ~(Dy(it.state) = -1 /\ it.pos[2] = 0)
          /\ Dy(it.state) = 1
          /\ it.field_size[2] = 0

\* Iterator::next() in either build: Returned(<<item, iterator after the
\* call>>), or Panicked.
RECURSIVE NextOutcome(_, _)
NextOutcome(it, overflow_checks) ==
    IF it.state = "Done" THEN Returned(<<None, it>>)
    ELSE IF CurPanics(it, overflow_checks) THEN Panicked
    ELSE IF Cur(it) # None THEN Returned(<<Cur(it), Advance(it)>>)
    ELSE NextOutcome(Advance(it), overflow_checks)

\* Everything the iterator yields until its first None, in order.
RECURSIVE Collect(_)
Collect(it) ==
    LET n == IterNext(it)
    IN IF n[1] = None THEN <<>> ELSE <<n[1][1]>> \o Collect(n[2])

Neighbors(f, x, y) == Collect(NewNeighborIter(f, x, y, FALSE))

NeighborsDiag(f, x, y) == Collect(NewNeighborIter(f, x, y, TRUE))

\* ================================================================ day12 ==

\* ------------------------------------------------------------------ state

VARIABLES
    input,      \* the lines from_lines is given (<<>> when the Heightmap is built directly)
    hm,         \* the Heightmap
    distances,  \* the running search's distance map
    heap,       \* the running search's BinaryHeap
    pc,         \* where day12 is: "from_lines", "idle" (between calls), "path_search",
                \* "find_all", "part2", "panicked"; "none" when day12 does not run
    results,    \* what the completed path_search calls returned, in call order
    distmap,    \* Option: what find_all_distances_to_goal returned
    part2,      \* Option: what part2 returned
    taken,      \* Option: the State the last heap.pop() of the search under way
                \* returned
    field,      \* a Field2D a caller owns
    fstate,     \* "none" before the constructor call, "live" after, "failed" when parse returned None
    call,       \* the last call made on `field`: its name, arguments and outcome
    nops,       \* the number of mutating calls made on `field`
    ctor,       \* the constructor call that made `field`
    iter,       \* a NeighborIter a caller holds
    istate,     \* "none" before neighbors / neighbors_diag is called, "live" after,
                \* "panicked" when the call or a next() panicked
    yields,     \* what the next() calls on `iter` returned, in call order
    prev,       \* Option: what the next() calls on the iterator before `iter` returned
    checks,     \* whether the build checks integer overflow (a debug build)
    program,    \* day10: the instructions run_program is given
    ip,         \* day10: the number of instructions taken from the input
    reg_x,      \* day10: the register X
    out,        \* day10: the values run_program has emitted
    rstate,     \* day09: "none", "simulate" (a simulate_movement iterator is
                \* pulled), "part2" (part2 is to run), "done", "panicked"
    dirs,       \* day09: the Directions simulate_movement has not taken yet
    head,       \* day09: the head Location of the unfold state
    tail,       \* day09: the tail Location of the unfold state
    emitted,    \* day09: Option: the movement of the item yielded last
    instrs,     \* day09: the MovementInstructions part2 reads
    p2rope,     \* day09: Option: what part2 returned
    mstate,     \* day11: "none", "parsed" (the monkeys are read), "playing"
                \* (the lcm is taken and turns are played), "overflowed"
    monkeys,    \* day11: part2's Vec<Monkey>
    lcm,        \* day11: part2's lcm of the throw test divisors
    monkey_throw_counts, \* day11: part2's count of the throws of each monkey
    turns,      \* day11: the number of turns played, monkey 0 of round 0 first
    thrown,     \* day11: every throw executed, in order, with its thrower and
                \* the stored worry level that was inspected
    exact       \* day11: the same game with every worry level kept unreduced:
                \* its monkeys, counts and throws

searchVars ==
    <<input, hm, distances, heap, pc, results, distmap, part2, taken>>

fieldVars == <<field, fstate, call, nops, ctor>>

iterVars == <<iter, istate, yields, prev, checks>>

cpuVars == <<program, ip, reg_x, out>>

ropeVars == <<rstate, dirs, head, tail, emitted, instrs, p2rope>>

monkeyVars ==
    <<mstate, monkeys, lcm, monkey_throw_counts, turns, thrown, exact>>

vars == <<searchVars, fieldVars, iterVars, cpuVars, ropeVars, monkeyVars>>

Lower ==
    <<"a", "b", "c", "d", "e", "f", "g", "h", "i", "j", "k", "l", "m",
      "n", "o", "p", "q", "r", "s", "t", "u", "v", "w", "x", "y", "z">>

\* `h as u8`: the byte of an input character.
Byte(h) ==
    IF h = "S" THEN 83
    ELSE IF h = "E" THEN 69
    ELSE 96 + (CHOOSE i \in 1..26 : Lower[i] = h)

\* u8 arithmetic on every character, the markers included.
CharElevationMutantNoMarkers(h) == (Byte(h) - Byte("a") + 256) % 256

\* The closure of from_lines applied to one character: the elevation stored.
CharElevation(h) ==
    IF h = "S" THEN 1
    ELSE IF h = "E" THEN 26
    ELSE (Byte(h) - Byte("a") + 256) % 256

ParseLine(line) == [i \in 1..Len(line) |-> CharElevation(line[i])]

\* The closure's writes to `start` / `goal`: the Option holds the position of
\* the last marker met, lines scanned in order, characters left to right.
RECURSIVE LastMarker(_, _, _, _)
LastMarker(lines, marker, line_idx, found) ==
    IF line_idx = Len(lines) THEN found
    ELSE LET line == lines[line_idx + 1]
             hits == {i \in 0..(Len(line) - 1) : line[i + 1] = marker}
             last == CHOOSE i \in hits : \A j \in hits : j <= i
         IN LastMarker(lines, marker, line_idx + 1,
                       IF hits = {} THEN found ELSE Some(<<last, line_idx>>))

\* struct Heightmap { start, goal, map }
Heightmap(start, goal, map) == [start |-> start, goal |-> goal, map |-> map]

\* from_lines: the three unwraps panic on an empty input and on a missing
\* marker.
FromLines(lines) ==
    LET map == Parse([y \in 1..Len(lines) |-> ParseLine(lines[y])])
        start == LastMarker(lines, "S", 0, None)
        goal == LastMarker(lines, "E", 0, None)
    IN IF map = None \/ start = None \/ goal = None THEN Panicked
       ELSE Returned(Heightmap(start[1], goal[1], map[1]))

\* struct State { cost, position }
State(cost, position) == [cost |-> cost, position |-> position]

\* (usize, usize)::cmp(a, b) = Greater
PositionGreater(a, b) == a[1] > b[1] \/ (a[1] = b[1] /\ a[2] > b[2])

\* The costs compared as they are: the heap is a max-queue on cost.
StateGreaterMutantMaxCost(a, b) ==
    \/ a.cost > b.cost
    \/ (b.cost = a.cost /\ PositionGreater(a.position, b.position))

\* State::cmp(a, b) = Greater: the costs compared in reverse, then the
\* positions.
StateGreater(a, b) ==
    \/ b.cost > a.cost
    \/ (b.cost = a.cost /\ PositionGreater(a.position, b.position))

\* BinaryHeap: the multiset of pushed entries, kept as a sequence; pop removes
\* a greatest entry.
HeapPush(h, s) == Append(h, s)

HeapTop(h) ==
    CHOOSE i \in 1..Len(h) : \A j \in 1..Len(h) : ~StateGreater(h[j], h[i])

HeapPeek(h) == h[HeapTop(h)]

HeapPop(h) ==
    LET t == HeapTop(h)
    IN [i \in 1..(Len(h) - 1) |-> IF i < t THEN h[i] ELSE h[i + 1]]

ValueAt(f, index) == Index(f, index).val

PathSearchFilterMutantStrict(map, position, neighbor) ==
    ValueAt(map, neighbor) < UsizeAdd(ValueAt(map, position), 1)

\* path_search's filter: the neighbour is at most one higher than position.
PathSearchFilter(map, position, neighbor) ==
    ValueAt(map, neighbor) <= UsizeAdd(ValueAt(map, position), 1)

FindAllFilterMutantForward(map, position, neighbor) ==
    ValueAt(map, neighbor) <= UsizeAdd(ValueAt(map, position), 1)

\* find_all_distances_to_goal's filter: position is at most one higher than
\* the neighbour.
FindAllFilter(map, position, neighbor) ==
    UsizeAdd(ValueAt(map, neighbor), 1) >= ValueAt(map, position)

\* The entry is pushed and the distance left as it was.
RECURSIVE RelaxMutantNoWrite(_, _, _)
RelaxMutantNoWrite(todo, cost, st) ==
    IF todo = <<>> THEN st
    ELSE LET next == State(UsizeAdd(cost, 1), Head(todo))
         IN IF next.cost < ValueAt(st.distances, next.position)
            THEN RelaxMutantNoWrite(Tail(todo), cost,
                       [heap |-> HeapPush(st.heap, next),
                        distances |-> st.distances])
            ELSE RelaxMutantNoWrite(Tail(todo), cost, st)

\* A step costs 2.
RECURSIVE RelaxMutantCostTwo(_, _, _)
RelaxMutantCostTwo(todo, cost, st) ==
    IF todo = <<>> THEN st
    ELSE LET next == State(UsizeAdd(cost, 2), Head(todo))
         IN IF next.cost < ValueAt(st.distances, next.position)
            THEN RelaxMutantCostTwo(Tail(todo), cost,
                       [heap |-> HeapPush(st.heap, next),
                        distances |->
                            IndexAssign(st.distances, next.position, next.cost).val])
            ELSE RelaxMutantCostTwo(Tail(todo), cost, st)

\* An equal cost relaxes the neighbour again.
RECURSIVE RelaxMutantLessEqual(_, _, _)
RelaxMutantLessEqual(todo, cost, st) ==
    IF todo = <<>> THEN st
    ELSE LET next == State(UsizeAdd(cost, 1), Head(todo))
         IN IF next.cost <= ValueAt(st.distances, next.position)
            THEN RelaxMutantLessEqual(Tail(todo), cost,
                       [heap |-> HeapPush(st.heap, next),
                        distances |->
                            IndexAssign(st.distances, next.position, next.cost).val])
            ELSE RelaxMutantLessEqual(Tail(todo), cost, st)

\* The body of the `for neighbor in ...` loop over the filtered neighbours
\* still to visit; st = [heap, distances].
RECURSIVE Relax(_, _, _)
Relax(todo, cost, st) ==
    IF todo = <<>> THEN st
    ELSE LET next == State(UsizeAdd(cost, 1), Head(todo))
         IN IF next.cost < ValueAt(st.distances, next.position)
            THEN Relax(Tail(todo), cost,
                       [heap |-> HeapPush(st.heap, next),
                        distances |->
                            IndexAssign(st.distances, next.position, next.cost).val])
            ELSE Relax(Tail(todo), cost, st)

\* The distance map outlives the call: a later call starts from what the
\* previous one left.
SearchEntryMutantKeepsDistances(map, from) ==
    IF HeightPanics(map) THEN Panicked
    ELSE LET fresh == IF distances.values = <<>>
                      THEN NewWithValue(Width(map), Height(map), UsizeMax)
                      ELSE distances
             set == IndexAssign(fresh, from, 0)
         IN IF set.tag = "panicked" THEN Panicked
            ELSE Returned([heap |-> HeapPush(<<>>, State(0, from)),
                           distances |-> set.val])

\* The locals of a search call right before its while loop, or a panic:
\* distances is new_with_value(width, height, MAX) with distances[from] = 0.
SearchEntry(map, from) ==
    IF HeightPanics(map) THEN Panicked
    ELSE LET fresh == NewWithValue(Width(map), Height(map), UsizeMax)
             set == IndexAssign(fresh, from, 0)
         IN IF set.tag = "panicked" THEN Panicked
            ELSE Returned([heap |-> HeapPush(<<>>, State(0, from)),
                           distances |-> set.val])

\* The minimum over every cell, the elevation filter left out.
Part2AnswerMutantNoFilter(hm_, dist) ==
    LET items == IterWithPosition(dist)
        best == CHOOSE k \in 1..Len(items) :
                    \A j \in 1..Len(items) : items[k][2] <= items[j][2]
    IN IF items = <<>> THEN Panicked ELSE Returned(items[best][2])

\* part2, after the distances are known: the distance of the first cell that
\* minimises it among the cells of elevation 0; unwrap panics without one.
Part2Answer(hm_, dist) ==
    LET items == IterWithPosition(dist)
        cand == {k \in 1..Len(items) : ValueAt(hm_.map, items[k][1]) = 0}
        best == CHOOSE k \in cand :
                    \A j \in cand : items[k][2] < items[j][2]
                                    \/ (items[k][2] = items[j][2] /\ k <= j)
    IN IF cand = {} THEN Panicked ELSE Returned(items[best][2])

NoField == Field2D(<<>>, 0)

NoHeightmap == Heightmap(<<0, 0>>, <<0, 0>>, NoField)

\* The character set of the inputs: both markers, the lowest letters and the
\* highest ones.
Alphabet == {"S", "E", "a", "b", "y", "z"}

Example ==
    << <<"S", "a", "b", "q", "p", "o", "n", "m">>,
       <<"a", "b", "c", "r", "y", "x", "x", "l">>,
       <<"a", "c", "c", "s", "z", "E", "x", "k">>,
       <<"a", "c", "c", "t", "u", "v", "w", "j">>,
       <<"a", "b", "d", "e", "f", "g", "h", "i">> >>

\* The line-length profiles of size at most n, size being the sum over the
\* lines of (1 + line length).
RECURSIVE Shapes(_)
Shapes(n) ==
    {<<>>} \cup UNION {{<<k>> \o rest : rest \in Shapes(n - 1 - k)} : k \in 0..(n - 1)}

RECURSIVE Split(_, _)
Split(chars, shape) ==
    IF shape = <<>> THEN <<>>
    ELSE <<SubSeq(chars, 1, Head(shape))>>
         \o Split(SubSeq(chars, Head(shape) + 1, Len(chars)), Tail(shape))

RECURSIVE Sum(_)
Sum(seq) == IF seq = <<>> THEN 0 ELSE Head(seq) + Sum(Tail(seq))

\* The dimensions of the heightmaps built directly: at most MaxCells cells.
Dims == {d \in (1..MaxCells) \X (1..MaxCells) : d[1] * d[2] <= MaxCells}

Positions(w, h) == (0..(w - 1)) \X (0..(h - 1))

NoCall == [name |-> "none", args |-> <<>>, out |-> Returned(0)]

\* No Field2D of a caller's is in play.
FieldIdle ==
    /\ field = NoField
    /\ fstate = "none"
    /\ call = NoCall
    /\ nops = 0
    /\ ctor = NoCall

NoIter == [field_size |-> <<0, 0>>, pos |-> <<0, 0>>, diag |-> FALSE, state |-> "Done"]

\* No NeighborIter of a caller's is in play.
IterIdle ==
    /\ iter = NoIter
    /\ istate = "none"
    /\ yields = <<>>
    /\ prev = None
    /\ checks = FALSE

\* day10 does not run.
CpuIdle ==
    /\ program = <<>>
    /\ ip = 0
    /\ reg_x = 0
    /\ out = <<>>

\* day09 does not run.
RopeIdle ==
    /\ rstate = "none"
    /\ dirs = <<>>
    /\ head = <<0, 0>>
    /\ tail = <<0, 0>>
    /\ emitted = None
    /\ instrs = <<>>
    /\ p2rope = None

\* The reference game before part2 starts it.
NoGame == [monkeys |-> <<>>, counts |-> <<>>, thrown |-> <<>>]

\* day11 does not run.
MonkeyIdle ==
    /\ mstate = "none"
    /\ monkeys = <<>>
    /\ lcm = 0
    /\ monkey_throw_counts = <<>>
    /\ turns = 0
    /\ thrown = <<>>
    /\ exact = NoGame

InitLocals ==
    /\ distances = NoField
    /\ heap = <<>>
    /\ results = <<>>
    /\ distmap = None
    /\ part2 = None
    /\ taken = None

\* Either the program's input is text: any lines over Alphabet of size at most
\* MaxInputSize, or the example of the tests. Or the Heightmap is built
\* directly: any grid of at most MaxCells cells with elevations in
\* 0..MaxElevation, start and goal anywhere in it.
Init ==
    /\ \/ /\ \/ \E shape \in Shapes(MaxInputSize) :
                   \E chars \in [1..Sum(shape) -> Alphabet] :
                       input = Split(chars, shape)
                \/ input = Example
          /\ hm = NoHeightmap
          /\ pc = "from_lines"
       \/ /\ input = <<>>
          /\ \E d \in Dims :
                \E v \in [1..(d[1] * d[2]) -> 0..MaxElevation] :
                    \E s \in Positions(d[1], d[2]), g \in Positions(d[1], d[2]) :
                        hm = Heightmap(s, g, Field2D(v, d[1]))
          /\ pc = "idle"
    /\ InitLocals
    /\ FieldIdle
    /\ IterIdle
    /\ CpuIdle
    /\ RopeIdle
    /\ MonkeyIdle

\* part1 / part2, line 149 / 154: the Heightmap is built from the lines.
DoFromLines ==
    /\ pc = "from_lines"
    /\ LET r == FromLines(input)
       IN IF r.tag = "panicked"
          THEN pc' = "panicked" /\ hm' = hm
          ELSE pc' = "idle" /\ hm' = r.val
    /\ UNCHANGED <<input, distances, heap, results, distmap, part2, taken>>
    /\ UNCHANGED <<fieldVars, iterVars, cpuVars, ropeVars, monkeyVars>>

\* path_search, lines 71-79.
PathSearchBegin ==
    /\ pc = "idle"
    /\ Len(results) < MaxRuns
    /\ LET e == SearchEntry(hm.map, hm.start)
       IN IF e.tag = "panicked"
          THEN /\ results' = Append(results, Panicked)
               /\ UNCHANGED <<pc, distances, heap, taken>>
          ELSE /\ pc' = "path_search"
               /\ distances' = e.val.distances
               /\ heap' = e.val.heap
               /\ taken' = None
               /\ results' = results
    /\ UNCHANGED <<input, hm, distmap, part2>>
    /\ UNCHANGED <<fieldVars, iterVars, cpuVars, ropeVars, monkeyVars>>

\* path_search, lines 81-107: one evaluation of the while condition and, when
\* an entry was popped, of the loop body.
PathSearchStep ==
    /\ pc = "path_search"
    /\ taken' = IF heap = <<>> THEN taken ELSE Some(HeapPeek(heap))
    /\ IF heap = <<>>
       THEN /\ results' = Append(results, Returned(None))
            /\ pc' = "idle"
            /\ UNCHANGED <<distances, heap>>
       ELSE LET s == HeapPeek(heap)
                popped == HeapPop(heap)
            IN IF s.position = hm.goal
               THEN /\ results' = Append(results, Returned(Some(s.cost)))
                    /\ pc' = "idle"
                    /\ heap' = popped
                    /\ UNCHANGED distances
               ELSE IF s.cost > ValueAt(distances, s.position)
               THEN /\ heap' = popped
                    /\ UNCHANGED <<pc, results, distances>>
               ELSE LET todo == SelectSeq(
                            Neighbors(hm.map, s.position[1], s.position[2]),
                            LAMBDA n : PathSearchFilter(hm.map, s.position, n))
                        st == Relax(todo, s.cost,
                                    [heap |-> popped, distances |-> distances])
                    IN /\ heap' = st.heap
                       /\ distances' = st.distances
                       /\ UNCHANGED <<pc, results>>
    /\ UNCHANGED <<input, hm, distmap, part2>>
    /\ UNCHANGED <<fieldVars, iterVars, cpuVars, ropeVars, monkeyVars>>

\* part2 calling find_all_distances_to_goal, lines 112-120. As in main, part2
\* runs after the path searches.
FindAllBegin ==
    /\ pc = "idle"
    /\ Len(results) = MaxRuns
    /\ distmap = None
    /\ part2 = None
    /\ LET e == SearchEntry(hm.map, hm.goal)
       IN IF e.tag = "panicked"
          THEN /\ part2' = Some(Panicked)
               /\ UNCHANGED <<pc, distances, heap, taken>>
          ELSE /\ pc' = "find_all"
               /\ distances' = e.val.distances
               /\ heap' = e.val.heap
               /\ taken' = None
               /\ part2' = part2
    /\ UNCHANGED <<input, hm, results, distmap>>
    /\ UNCHANGED <<fieldVars, iterVars, cpuVars, ropeVars, monkeyVars>>

\* find_all_distances_to_goal, lines 122-144.
FindAllStep ==
    /\ pc = "find_all"
    /\ taken' = IF heap = <<>> THEN taken ELSE Some(HeapPeek(heap))
    /\ IF heap = <<>>
       THEN /\ distmap' = Some(distances)
            /\ pc' = "part2"
            /\ UNCHANGED <<distances, heap>>
       ELSE LET s == HeapPeek(heap)
                popped == HeapPop(heap)
            IN IF s.cost > ValueAt(distances, s.position)
               THEN /\ heap' = popped
                    /\ UNCHANGED <<pc, distmap, distances>>
               ELSE LET todo == SelectSeq(
                            Neighbors(hm.map, s.position[1], s.position[2]),
                            LAMBDA n : FindAllFilter(hm.map, s.position, n))
                        st == Relax(todo, s.cost,
                                    [heap |-> popped, distances |-> distances])
                    IN /\ heap' = st.heap
                       /\ distances' = st.distances
                       /\ UNCHANGED <<pc, distmap>>
    /\ UNCHANGED <<input, hm, results, part2>>
    /\ UNCHANGED <<fieldVars, iterVars, cpuVars, ropeVars, monkeyVars>>

\* part2, lines 156-160.
Part2Min ==
    /\ pc = "part2"
    /\ part2' = Some(Part2Answer(hm, distmap[1]))
    /\ pc' = "idle"
    /\ UNCHANGED <<input, hm, distances, heap, results, distmap, taken>>
    /\ UNCHANGED <<fieldVars, iterVars, cpuVars, ropeVars, monkeyVars>>

Next ==
    \/ DoFromLines
    \/ PathSearchBegin
    \/ PathSearchStep
    \/ FindAllBegin
    \/ FindAllStep
    \/ Part2Min

Spec == Init /\ [][Next]_vars

\* ------------------------------------------------- a caller's Field2D --

\* Field2D never inspects its values, so one labelling stands for every
\* content: the value parsed for column x of row y is Label(x, y), different
\* for different cells and different from T::default() = 0 and from Values.
Label(x, y) == 100 + 10 * y + x

\* The values a caller fills with or writes.
Values == {1, 2}

\* A row given to parse: its number and its length. The parser yields the
\* row's labels.
LabelRow(row) == [i \in 1..row[2] |-> Label(i - 1, row[1])]

\* The row-length profiles given to parse: up to MaxDim rows of up to MaxDim
\* values, ragged ones included.
RowShapes == UNION {[1..n -> 0..MaxDim] : n \in 0..MaxDim}

RowsOf(shape) == [y \in 1..Len(shape) |-> <<y - 1, shape[y]>>]

Coords == 0..MaxDim

InitField ==
    /\ input = <<>>
    /\ hm = NoHeightmap
    /\ pc = "none"
    /\ InitLocals
    /\ FieldIdle
    /\ IterIdle
    /\ CpuIdle
    /\ RopeIdle
    /\ MonkeyIdle

FieldParse ==
    /\ fstate = "none"
    /\ \E shape \in RowShapes :
          LET rows == RowsOf(shape)
              r == Parse([y \in 1..Len(rows) |-> LabelRow(rows[y])])
          IN /\ call' = [name |-> "parse", args |-> shape, out |-> Returned(r)]
             /\ IF r = None
                THEN field' = field /\ fstate' = "failed"
                ELSE field' = r[1] /\ fstate' = "live"
    /\ ctor' = call'
    /\ UNCHANGED <<nops, searchVars, iterVars, cpuVars, ropeVars, monkeyVars>>

FieldNewEmpty ==
    /\ fstate = "none"
    /\ \E w \in 0..MaxDim, h \in 0..MaxDim :
          /\ field' = NewEmpty(w, h)
          /\ call' = [name |-> "new_empty", args |-> <<w, h>>, out |-> Returned(0)]
    /\ fstate' = "live"
    /\ ctor' = call'
    /\ UNCHANGED <<nops, searchVars, iterVars, cpuVars, ropeVars, monkeyVars>>

FieldNewWithValue ==
    /\ fstate = "none"
    /\ \E w \in 0..MaxDim, h \in 0..MaxDim, v \in Values :
          /\ field' = NewWithValue(w, h, v)
          /\ call' = [name |-> "new_with_value", args |-> <<w, h, v>>,
                      out |-> Returned(0)]
    /\ fstate' = "live"
    /\ ctor' = call'
    /\ UNCHANGED <<nops, searchVars, iterVars, cpuVars, ropeVars, monkeyVars>>

FieldAddRow ==
    /\ fstate = "live"
    /\ nops < MaxOps
    /\ field' = AddRow(field)
    /\ call' = [name |-> "add_row", args |-> <<>>, out |-> Returned(0)]
    /\ nops' = nops + 1
    /\ UNCHANGED <<fstate, ctor, searchVars, iterVars, cpuVars, ropeVars, monkeyVars>>

\* field[(x, y)] = v
FieldIndexAssign ==
    /\ fstate = "live"
    /\ nops < MaxOps
    /\ \E x \in Coords, y \in Coords, v \in Values :
          LET r == IndexAssign(field, <<x, y>>, v)
          IN /\ field' = IF r.tag = "panicked" THEN field ELSE r.val
             /\ call' = [name |-> "index_mut", args |-> <<x, y, v>>,
                         out |-> IF r.tag = "panicked" THEN Panicked ELSE Returned(0)]
    /\ nops' = nops + 1
    /\ UNCHANGED <<fstate, ctor, searchVars, iterVars, cpuVars, ropeVars, monkeyVars>>

\* A write through the k-th reference iter_mut() hands out.
FieldIterMutWrite ==
    /\ fstate = "live"
    /\ nops < MaxOps
    /\ \E k \in 1..Len(field.values), v \in Values :
          /\ field' = Field2D([field.values EXCEPT ![k] = v], field.width)
          /\ call' = [name |-> "iter_mut", args |-> <<k - 1, v>>, out |-> Returned(0)]
    /\ nops' = nops + 1
    /\ UNCHANGED <<fstate, ctor, searchVars, iterVars, cpuVars, ropeVars, monkeyVars>>

\* field[(x, y)] read
FieldIndex ==
    /\ fstate = "live"
    /\ \E x \in Coords, y \in Coords :
          call' = [name |-> "index", args |-> <<x, y>>, out |-> Index(field, <<x, y>>)]
    /\ UNCHANGED <<field, fstate, nops, ctor, searchVars, iterVars, cpuVars, ropeVars, monkeyVars>>

\* field.iter_with_position().collect(): the closure divides by width, so
\* the first item panics on a grid of width 0.
FieldIterWithPosition ==
    /\ fstate = "live"
    /\ call' = [name |-> "iter_with_position", args |-> <<>>,
                out |-> IF field.width = 0 /\ field.values # <<>> THEN Panicked
                        ELSE Returned(IterWithPosition(field))]
    /\ UNCHANGED <<field, fstate, nops, ctor, searchVars, iterVars, cpuVars, ropeVars, monkeyVars>>

NextField ==
    \/ FieldParse
    \/ FieldNewEmpty
    \/ FieldNewWithValue
    \/ FieldAddRow
    \/ FieldIndexAssign
    \/ FieldIterMutWrite
    \/ FieldIndex
    \/ FieldIterWithPosition

SpecField == InitField /\ [][NextField]_vars

\* ----------------------------------------------------------------------
\* A NeighborIter made by neighbors / neighbors_diag for a grid and an
\* origin of the caller's choice, and the next() calls made on it.

InitIter ==
    /\ input = <<>>
    /\ hm = NoHeightmap
    /\ pc = "none"
    /\ InitLocals
    /\ CpuIdle
    /\ RopeIdle
    /\ MonkeyIdle
    /\ \E w \in 0..MaxIterDim, h \in 0..MaxIterDim :
          /\ field = NewEmpty(w, h)
          /\ call = [name |-> "new_empty", args |-> <<w, h>>, out |-> Returned(0)]
    /\ ctor = call
    /\ fstate = "live"
    /\ nops = 0
    /\ iter = NoIter
    /\ istate = "none"
    /\ yields = <<>>
    /\ prev = None
    /\ checks \in BOOLEAN

\* field.neighbors(x, y): height() panics on a grid of width 0.
IterNeighbors ==
    /\ istate = "none"
    /\ \E ox \in 0..MaxIterDim, oy \in 0..MaxIterDim :
          IF HeightPanics(field)
          THEN istate' = "panicked" /\ iter' = iter
          ELSE istate' = "live" /\ iter' = NewNeighborIter(field, ox, oy, FALSE)
    /\ UNCHANGED <<yields, prev, checks, fieldVars, searchVars, cpuVars, ropeVars, monkeyVars>>

\* field.neighbors_diag(x, y)
IterNeighborsDiag ==
    /\ istate = "none"
    /\ \E ox \in 0..MaxIterDim, oy \in 0..MaxIterDim :
          IF HeightPanics(field)
          THEN istate' = "panicked" /\ iter' = iter
          ELSE istate' = "live" /\ iter' = NewNeighborIter(field, ox, oy, TRUE)
    /\ UNCHANGED <<yields, prev, checks, fieldVars, searchVars, cpuVars, ropeVars, monkeyVars>>

\* iter.next()
IterNextCall ==
    /\ istate = "live"
    /\ Len(yields) < MaxNextCalls
    /\ LET r == NextOutcome(iter, checks)
       IN IF r = Panicked
          THEN istate' = "panicked" /\ UNCHANGED <<iter, yields>>
          ELSE /\ yields' = Append(yields, r.val[1])
               /\ iter' = r.val[2]
               /\ istate' = istate
    /\ UNCHANGED <<prev, checks, fieldVars, searchVars, cpuVars, ropeVars, monkeyVars>>

\* The caller drops the iterator and calls neighbors / neighbors_diag again
\* for the same origin.
IterRequery ==
    /\ istate = "live"
    /\ prev = None
    /\ prev' = Some(yields)
    /\ yields' = <<>>
    /\ iter' = NewNeighborIter(field, iter.pos[1], iter.pos[2], iter.diag)
    /\ UNCHANGED <<istate, checks, fieldVars, searchVars, cpuVars, ropeVars, monkeyVars>>

NextIter ==
    \/ IterNeighbors
    \/ IterNeighborsDiag
    \/ IterNextCall
    \/ IterRequery

SpecIter == InitIter /\ [][NextIter]_vars

\* ================================================================ day10 ==

\* enum Instruction { NoOp, AddX(i64) }
NoOp == [op |-> "noop", arg |-> 0]

AddX(v) == [op |-> "addx", arg |-> v]

\* Every instruction takes one cycle.
GetCyclesMutantOneCycle(instruction) == 1

\* Instruction::get_cycles
GetCycles(instruction) == IF instruction.op = "noop" THEN 1 ELSE 2

\* Instruction::run(x) -> (new_x, cycles). The sums of the programs run here
\* are far from the ends of i64.
Run(instruction, rx) ==
    <<IF instruction.op = "noop" THEN rx ELSE rx + instruction.arg,
      GetCycles(instruction)>>

\* The arguments of addx in test_simple_prog.
AddxArgs == {3, -5}

Instructions == {NoOp} \cup {AddX(v) : v \in AddxArgs}

\* run_program(input): unfold starts from X = 1, nothing is emitted yet.
InitCpu ==
    /\ input = <<>>
    /\ hm = NoHeightmap
    /\ pc = "none"
    /\ InitLocals
    /\ FieldIdle
    /\ IterIdle
    /\ RopeIdle
    /\ MonkeyIdle
    /\ \E n \in 0..MaxProgramLen : program \in [1..n -> Instructions]
    /\ ip = 0
    /\ reg_x = 1
    /\ out = <<>>

\* One call of the closure unfold is given, flattened into the output: the
\* next instruction runs, X as it was is emitted once per cycle, then X
\* takes its new value.
RunProgramStep ==
    /\ ip < Len(program)
    /\ LET r == Run(program[ip + 1], reg_x)
       IN /\ out' = out \o [c \in 1..r[2] |-> reg_x]
          /\ reg_x' = r[1]
    /\ ip' = ip + 1
    /\ UNCHANGED <<program, searchVars, fieldVars, iterVars, ropeVars, monkeyVars>>

NextCpu == RunProgramStep

SpecCpu == InitCpu /\ [][NextCpu]_vars

\* ================================================================ day09 ==

\* enum Direction
Direction ==
    {"Up", "Down", "Left", "Right", "UpRight", "UpLeft", "DownLeft", "DownRight"}

\* The Directions Direction::from_str returns: U, D, L, R.
ParsedDirections == {"Up", "Down", "Left", "Right"}

\* Direction::apply(loc)
Apply(dir, loc) ==
    CASE dir = "Up" -> <<loc[1], loc[2] + 1>>
      [] dir = "Down" -> <<loc[1], loc[2] - 1>>
      [] dir = "Left" -> <<loc[1] - 1, loc[2]>>
      [] dir = "Right" -> <<loc[1] + 1, loc[2]>>
      [] dir = "UpRight" -> <<loc[1] + 1, loc[2] + 1>>
      [] dir = "UpLeft" -> <<loc[1] - 1, loc[2] + 1>>
      [] dir = "DownLeft" -> <<loc[1] - 1, loc[2] - 1>>
      [] dir = "DownRight" -> <<loc[1] + 1, loc[2] - 1>>

\* struct MovementInstruction(Direction, usize)
MovementInstruction(dir, distance) == <<dir, distance>>

\* MovementInstruction::unfold: vec![self.0; self.1]
Unfold(instruction) == [i \in 1..instruction[2] |-> instruction[1]]

\* .flat_map(|i| i.unfold())
RECURSIVE UnfoldAll(_)
UnfoldAll(instructions) ==
    IF instructions = <<>> THEN <<>>
    ELSE Unfold(Head(instructions)) \o UnfoldAll(Tail(instructions))

\* isize::abs_diff
AbsDiff(a, b) == IF a < b THEN b - a ELSE a - b

\* Only the four cells sharing a side touch.
TouchesMutantNoDiagonal(a, b) == AbsDiff(a[1], b[1]) + AbsDiff(a[2], b[2]) <= 1

\* Location::touches
Touches(a, b) == AbsDiff(a[1], b[1]) <= 1 /\ AbsDiff(a[2], b[2]) <= 1

\* isize::clamp(min, max)
Clamp(v, min, max) == IF v < min THEN min ELSE IF v > max THEN max ELSE v

\* The match on (dx, dy) of simulate_movement; (0, 0) has no arm but the
\* panicking one.
DirectionOf(dx, dy) ==
    CASE dx = 1 /\ dy = 0 -> Returned("Right")
      [] dx = 1 /\ dy = 1 -> Returned("UpRight")
      [] dx = 0 /\ dy = 1 -> Returned("Up")
      [] dx = -1 /\ dy = 1 -> Returned("UpLeft")
      [] dx = -1 /\ dy = 0 -> Returned("Left")
      [] dx = -1 /\ dy = -1 -> Returned("DownLeft")
      [] dx = 0 /\ dy = -1 -> Returned("Down")
      [] dx = 1 /\ dy = -1 -> Returned("DownRight")
      [] OTHER -> Panicked

\* The closure simulate_movement gives to unfold, for the instruction ins:
\* Returned([head, tail, movement]), the new unfold state and the item's
\* third part, or Panicked.
SimulateClosure(h, t, ins) ==
    LET next_head == Apply(ins, h)
    IN IF ~Touches(next_head, t)
       THEN LET dx == Clamp(next_head[1] - t[1], -1, 1)
                dy == Clamp(next_head[2] - t[2], -1, 1)
                dir == DirectionOf(dx, dy)
            IN IF dir = Panicked THEN Panicked
               ELSE Returned([head |-> next_head,
                              tail |-> <<t[1] + dx, t[2] + dy>>,
                              movement |-> Some(dir.val)])
       ELSE Returned([head |-> next_head, tail |-> t, movement |-> None])

\* The items simulate_movement yields from the unfold state (h, t) for the
\* Directions ins, when it is pulled to its end: Returned(items) or Panicked.
RECURSIVE SimulateFrom(_, _, _)
SimulateFrom(h, t, ins) ==
    IF ins = <<>> THEN Returned(<<>>)
    ELSE LET r == SimulateClosure(h, t, Head(ins))
         IN IF r = Panicked THEN Panicked
            ELSE LET rest == SimulateFrom(r.val.head, r.val.tail, Tail(ins))
                 IN IF rest = Panicked THEN Panicked
                    ELSE Returned(<<r.val>> \o rest.val)

\* simulate_movement(input), unfold starting from two default Locations.
SimulateMovement(ins) == SimulateFrom(<<0, 0>>, <<0, 0>>, ins)

\* Straight movements alone are passed on.
RECURSIVE MovementsMutantStraightOnly(_)
MovementsMutantStraightOnly(items) ==
    IF items = <<>> THEN <<>>
    ELSE (IF Head(items).movement # None
             /\ Head(items).movement[1] \in ParsedDirections
          THEN Head(items).movement ELSE <<>>)
         \o MovementsMutantStraightOnly(Tail(items))

\* .flat_map(|(_, _, i)| i): the movements of the items that have one.
RECURSIVE Movements(_)
Movements(items) ==
    IF items = <<>> THEN <<>>
    ELSE Head(items).movement \o Movements(Tail(items))

\* (0..n).fold(ins, |ins, _| simulate_movement(ins).flat_map(..)): the
\* Directions the n-th simulation passes on, or Panicked.
RECURSIVE FoldSimulations(_, _)
FoldSimulations(ins, n) ==
    IF n = 0 THEN Returned(ins)
    ELSE LET r == SimulateMovement(ins)
         IN IF r = Panicked THEN Panicked
            ELSE FoldSimulations(Movements(r.val), n - 1)

\* part2 folds over 0..9.
FollowerSims == 9

\* part2 with `sims` in place of 9: the heads of one more simulation run on
\* what the fold passes on, collected into a set with Location(0, 0), and the
\* set's size.
RopeVisited(instructions, sims) ==
    LET folded == FoldSimulations(UnfoldAll(instructions), sims)
    IN IF folded = Panicked THEN Panicked
       ELSE LET last == SimulateMovement(folded.val)
            IN IF last = Panicked THEN Panicked
               ELSE LET tail_visited ==
                            {last.val[i].head : i \in 1..Len(last.val)}
                               \cup {<<0, 0>>}
                    IN Returned([visited |-> tail_visited,
                                 len |-> Cardinality(tail_visited)])

\* Either simulate_movement is called with up to MaxDirs Directions of any
\* kind, or part2 reads two instructions (a distance of 0 is one that moves
\* nothing) moving the head MaxHeadSteps steps at most.
InitRope ==
    /\ input = <<>>
    /\ hm = NoHeightmap
    /\ pc = "none"
    /\ InitLocals
    /\ FieldIdle
    /\ IterIdle
    /\ CpuIdle
    /\ MonkeyIdle
    /\ head = <<0, 0>>
    /\ tail = <<0, 0>>
    /\ emitted = None
    /\ p2rope = None
    /\ \/ /\ rstate = "simulate"
          /\ instrs = <<>>
          /\ \E n \in 0..MaxDirs : dirs \in [1..n -> Direction]
       \/ /\ rstate = "part2"
          /\ dirs = <<>>
          /\ \E d1 \in ParsedDirections, d2 \in ParsedDirections :
                \E n1 \in 0..MaxHeadSteps, n2 \in 0..MaxHeadSteps :
                   /\ n1 + n2 <= MaxHeadSteps
                   /\ instrs = <<MovementInstruction(d1, n1),
                                 MovementInstruction(d2, n2)>>

\* One next() on the iterator simulate_movement returned, the input having
\* a Direction left.
SimulateStep ==
    /\ rstate = "simulate"
    /\ dirs # <<>>
    /\ LET r == SimulateClosure(head, tail, Head(dirs))
       IN IF r = Panicked
          THEN rstate' = "panicked" /\ UNCHANGED <<head, tail, emitted>>
          ELSE /\ head' = r.val.head
               /\ tail' = r.val.tail
               /\ emitted' = r.val.movement
               /\ rstate' = rstate
    /\ dirs' = Tail(dirs)
    /\ UNCHANGED <<instrs, p2rope, searchVars, fieldVars, iterVars, cpuVars,
                   monkeyVars>>

\* part2
RopePart2 ==
    /\ rstate = "part2"
    /\ LET r == RopeVisited(instrs, FollowerSims)
       IN /\ p2rope' = Some(r)
          /\ rstate' = IF r = Panicked THEN "panicked" ELSE "done"
    /\ UNCHANGED <<dirs, head, tail, emitted, instrs>>
    /\ UNCHANGED <<searchVars, fieldVars, iterVars, cpuVars, monkeyVars>>

NextRope ==
    \/ SimulateStep
    \/ RopePart2

SpecRope == InitRope /\ [][NextRope]_vars

\* ================================================================ day11 ==

\* struct ThrowTest { divisible_by, if_true, if_false }
ThrowTest(divisible_by, if_true, if_false) ==
    [divisible_by |-> divisible_by, if_true |-> if_true, if_false |-> if_false]

\* struct Throw { item, to }
Throw(item, to) == [item |-> item, to |-> to]

\* ThrowTest::run
ThrowTestRun(test, item) ==
    Throw(item, IF item % test.divisible_by = 0 THEN test.if_true
                ELSE test.if_false)

\* struct Operation { operator, operand }
Operation(operator, operand) == [operator |-> operator, operand |-> operand]

\* Operation::apply, as the number the arithmetic stands for.
OperationApply(operation, worry) ==
    CASE operation.operator = "Add" -> worry + operation.operand
      [] operation.operator = "Mult" -> worry * operation.operand
      [] operation.operator = "Square" -> worry * worry

\* Operation::apply computes in usize: a result beyond usize::MAX panics in a
\* build with overflow checks and wraps in one without.
ApplyOverflows(operation, worry) == OperationApply(operation, worry) > UsizeMax

\* struct Monkey { items, operation, throw_test }
Monkey(items, operation, throw_test) ==
    [items |-> items, operation |-> operation, throw_test |-> throw_test]

RECURSIVE Gcd(_, _)
Gcd(a, b) == IF b = 0 THEN a ELSE Gcd(b, a % b)

\* num::integer::lcm
Lcm(a, b) == IF a = 0 /\ b = 0 THEN 0 ELSE a * (b \div Gcd(a, b))

\* part2: the divisors of all monkeys reduced with lcm, first monkey first.
RECURSIVE ReduceLcm(_, _)
ReduceLcm(acc, ms) ==
    IF ms = <<>> THEN acc
    ELSE ReduceLcm(Lcm(acc, Head(ms).throw_test.divisible_by), Tail(ms))

TestLcm(ms) == ReduceLcm(Head(ms).throw_test.divisible_by, Tail(ms))

\* take_turn_ring_op reducing by the monkey's own divisor.
TakeTurnRingOpMutantOwnDivisor(monkey, test_lcm) ==
    [k \in 1..Len(monkey.items) |->
        ThrowTestRun(monkey.throw_test,
                     OperationApply(monkey.operation, monkey.items[k])
                         % monkey.throw_test.divisible_by)]

\* take_turn_ring_op: the throws of the monkey's items, in item order. (The
\* caller of this operator clears the items.)
TakeTurnRingOp(monkey, test_lcm) ==
    [k \in 1..Len(monkey.items) |->
        ThrowTestRun(monkey.throw_test,
                     OperationApply(monkey.operation, monkey.items[k])
                         % test_lcm)]

\* The turn of the reference game: take_turn_ring_op without its reduction,
\* the worry level being kept as the number it is.
TakeTurnExact(monkey) ==
    [k \in 1..Len(monkey.items) |->
        ThrowTestRun(monkey.throw_test,
                     OperationApply(monkey.operation, monkey.items[k]))]

\* Throw::execute
Execute(throw, ms) == [ms EXCEPT ![throw.to + 1].items = Append(@, throw.item)]

\* throws.into_iter().for_each(|throw| throw.execute(&mut monkeys))
RECURSIVE ExecuteAll(_, _)
ExecuteAll(throws, ms) ==
    IF throws = <<>> THEN ms
    ELSE ExecuteAll(Tail(throws), Execute(Head(throws), ms))

\* The body of part2's inner loop on the monkeys: monkey `who` has its items
\* cleared by its turn, then the throws are executed.
PlayTurn(ms, who, throws) ==
    ExecuteAll(throws, [ms EXCEPT ![who + 1].items = <<>>])

\* monkey_throw_counts[i] += throws.len()
CountThrows(counts, who, throws) ==
    [counts EXCEPT ![who + 1] = @ + Len(throws)]

\* What the log keeps of the throws of one turn.
LogThrows(who, monkey, throws) ==
    [k \in 1..Len(throws) |->
        [from |-> who, inspected |-> monkey.items[k],
         item |-> throws[k].item, to |-> throws[k].to]]

\* The monkey descriptors part2 is given: two monkeys, each with one of
\* these divisors, operations and starting items, throwing to either monkey.
Divisors == {2, 3, 4}

Operations ==
    {Operation("Add", 1), Operation("Add", 4), Operation("Mult", 3),
     Operation("Square", 0)}

StartingItems == {<<>>, <<2>>, <<5, 9>>}

MonkeyIds == {0, 1}

InitMonkeys ==
    /\ input = <<>>
    /\ hm = NoHeightmap
    /\ pc = "none"
    /\ InitLocals
    /\ FieldIdle
    /\ IterIdle
    /\ CpuIdle
    /\ RopeIdle
    /\ mstate = "parsed"
    /\ \E d0 \in Divisors, d1 \in Divisors :
          \E o0 \in Operations, o1 \in Operations :
             \E s0 \in StartingItems, s1 \in StartingItems :
                \E t0 \in MonkeyIds, f0 \in MonkeyIds :
                   \E t1 \in MonkeyIds, f1 \in MonkeyIds :
                      monkeys = <<Monkey(s0, o0, ThrowTest(d0, t0, f0)),
                                  Monkey(s1, o1, ThrowTest(d1, t1, f1))>>
    /\ lcm = 0
    /\ monkey_throw_counts = <<>>
    /\ turns = 0
    /\ thrown = <<>>
    /\ exact = NoGame

\* part2 up to its loop: the lcm is taken and the counts start at 0.
TakeLcm ==
    /\ mstate = "parsed"
    /\ lcm' = TestLcm(monkeys)
    /\ monkey_throw_counts' = [k \in 1..Len(monkeys) |-> 0]
    /\ exact' = [monkeys |-> monkeys,
                 counts |-> [k \in 1..Len(monkeys) |-> 0],
                 thrown |-> <<>>]
    /\ mstate' = "playing"
    /\ UNCHANGED <<monkeys, turns, thrown>>
    /\ UNCHANGED <<searchVars, fieldVars, iterVars, cpuVars, ropeVars>>

\* One pass of the body of part2's inner loop, for monkey turns % len; the
\* reference game takes the same turn. The game is followed while the
\* reference worry levels stay within MaxWorry.
MonkeyTurn ==
    /\ mstate = "playing"
    /\ turns < MaxTurns
    /\ LET who == turns % Len(monkeys)
           monkey == monkeys[who + 1]
           throws == TakeTurnRingOp(monkey, lcm)
           exact_monkey == exact.monkeys[who + 1]
           exact_throws == TakeTurnExact(exact_monkey)
       IN /\ \A k \in 1..Len(exact_throws) : exact_throws[k].item <= MaxWorry
          /\ IF \E k \in 1..Len(monkey.items) :
                   ApplyOverflows(monkey.operation, monkey.items[k])
             THEN /\ mstate' = "overflowed"
                  /\ UNCHANGED <<monkeys, monkey_throw_counts, thrown, exact>>
             ELSE /\ mstate' = mstate
                  /\ monkeys' = PlayTurn(monkeys, who, throws)
                  /\ monkey_throw_counts' =
                        CountThrows(monkey_throw_counts, who, throws)
                  /\ thrown' = thrown \o LogThrows(who, monkey, throws)
                  /\ exact' =
                        [monkeys |-> PlayTurn(exact.monkeys, who, exact_throws),
                         counts |-> CountThrows(exact.counts, who, exact_throws),
                         thrown |-> exact.thrown
                                      \o LogThrows(who, exact_monkey, exact_throws)]
    /\ turns' = turns + 1
    /\ UNCHANGED lcm
    /\ UNCHANGED <<searchVars, fieldVars, iterVars, cpuVars, ropeVars>>

NextMonkeys ==
    \/ TakeLcm
    \/ MonkeyTurn

SpecMonkeys == InitMonkeys /\ [][NextMonkeys]_vars

\* ========================================================== properties ==

\* The grid a Field2D spans: width x height; trailing values of a ragged
\* parse lie outside it.
Cells(f) == IF HeightPanics(f) THEN {} ELSE Positions(Width(f), Height(f))

InBounds(f, p) == f.width > 0 /\ p[1] < f.width /\ p[2] < Len(f.values) \div f.width

Elevation(f, p) == f.values[p[2] * f.width + p[1] + 1]

Abs(n) == IF n < 0 THEN -n ELSE n

Adjacent(p, q) == Abs(p[1] - q[1]) + Abs(p[2] - q[2]) = 1

\* One step of a climbing path: into an orthogonal neighbour at most one
\* higher than the cell left.
ClimbStep(f, p, q) == Adjacent(p, q) /\ Elevation(f, q) <= Elevation(f, p) + 1

\* Breadth-first layers from `frontier`: Some(the number of the layer `to`
\* lies in) or None.
RECURSIVE Layers(_, _, _, _, _)
Layers(f, frontier, seen, to, d) ==
    IF to \in frontier THEN Some(d)
    ELSE IF frontier = {} THEN None
    ELSE LET next == {q \in Cells(f) \ seen :
                         \E p \in frontier : ClimbStep(f, p, q)}
         IN Layers(f, next, seen \cup next, to, d + 1)

\* The length of a shortest climbing path, as an Option.
ClimbDistance(f, from, to) == Layers(f, {from}, {from}, to, 0)

\* from_lines has returned a Heightmap, or one was built directly.
Built == pc \in {"idle", "path_search", "find_all", "part2"}

WellFormed == Built /\ InBounds(hm.map, hm.start) /\ InBounds(hm.map, hm.goal)

\* C1: on a heightmap whose start and goal are in bounds, every path_search
\* call that has returned (the program is between calls) returned Some(length
\* of a shortest climbing path from start to goal), None when there is no
\* such path, and did not panic.
C1_PathSearchShortest ==
    (pc = "idle" /\ WellFormed) =>
        \A i \in 1..Len(results) :
            results[i] = Returned(ClimbDistance(hm.map, hm.start, hm.goal))

\* C1 witness: start and goal are adjacent, the direct step is too steep and
\* the search returned the length of the way round.
C1_Witness ==
    /\ WellFormed
    /\ results # <<>>
    /\ Adjacent(hm.start, hm.goal)
    /\ results[1] = Returned(Some(3))

\* C2: the map find_all_distances_to_goal returns has the input map's width
\* and height and holds, for every cell, the length of a shortest climbing
\* path from the cell to the goal, usize::MAX exactly where there is none.
C2_AllDistances ==
    (distmap # None /\ WellFormed) =>
        /\ Width(distmap[1]) = Width(hm.map)
        /\ Height(distmap[1]) = Height(hm.map)
        /\ \A c \in Cells(hm.map) :
              LET d == ClimbDistance(hm.map, c, hm.goal)
              IN Index(distmap[1], c) = Returned(IF d = None THEN UsizeMax ELSE d[1])

\* C2 witness: a returned map with an unreachable cell and a cell two steps
\* or more from the goal.
C2_Witness ==
    /\ WellFormed
    /\ distmap # None
    /\ \E c \in Cells(hm.map) : ValueAt(distmap[1], c) = UsizeMax
    /\ \E c \in Cells(hm.map) :
          ValueAt(distmap[1], c) >= 2 /\ ValueAt(distmap[1], c) < UsizeMax

\* C3: on the example of the tests part1 returns 31 (path_search returns
\* Some(31), which part1 unwraps) and part2 returns 29.
C3_Example ==
    input = Example =>
        /\ \A i \in 1..Len(results) : results[i] = Returned(Some(31))
        /\ part2 # None => part2[1] = Returned(29)

\* C3 witness: both parts have run on the example.
C3_Witness == input = Example /\ results # <<>> /\ part2 # None

\* The elevation C4 gives a character.
ClaimedElevation(h) ==
    IF h = "S" THEN 0
    ELSE IF h = "E" THEN 25
    ELSE (CHOOSE i \in 1..26 : Lower[i] = h) - 1

\* C4 (as claimed): from_lines stores 0..25 for 'a'..'z', 0 for 'S' and 25 for
\* 'E', and records the coordinates of 'S' and 'E' as start and goal.
C4_FromLinesElevations ==
    (Built /\ input # <<>>) =>
        /\ hm.map.values =
              ExtendAll(<<>>, [y \in 1..Len(input) |->
                                  [x \in 1..Len(input[y]) |->
                                      ClaimedElevation(input[y][x])]])
        /\ input[hm.start[2] + 1][hm.start[1] + 1] = "S"
        /\ input[hm.goal[2] + 1][hm.goal[1] + 1] = "E"

\* C5 (as claimed): part2 never returns the sentinel usize::MAX, and no
\* path_search call does.
C5_NoSentinelLeak ==
    /\ part2 # None => part2[1] # Returned(UsizeMax)
    /\ \A i \in 1..Len(results) : results[i] # Returned(Some(UsizeMax))

\* The cells of elevation 0 with a climbing path to the goal.
LowStarts ==
    {c \in Cells(hm.map) :
        Elevation(hm.map, c) = 0 /\ ClimbDistance(hm.map, c, hm.goal) # None}

\* C6: when some cell of elevation 0 can reach the goal, part2 returns the
\* least shortest-path length to the goal over the cells of elevation 0.
C6_Part2Minimum ==
    (part2 # None /\ WellFormed /\ LowStarts # {}) =>
        /\ part2[1].tag = "returned"
        /\ \E c \in LowStarts : ClimbDistance(hm.map, c, hm.goal) = Some(part2[1].val)
        /\ \A c \in LowStarts : ClimbDistance(hm.map, c, hm.goal)[1] >= part2[1].val

\* C6 witness: two cells of elevation 0 reach the goal over different
\* distances, and part2 has returned.
C6_Witness ==
    /\ WellFormed
    /\ part2 # None
    /\ \E c, d \in LowStarts :
          ClimbDistance(hm.map, c, hm.goal) # ClimbDistance(hm.map, d, hm.goal)

\* C7: every path_search call on one Heightmap returns what the first call
\* returned, and no step of a search changes the Heightmap.
C7_SearchIdempotent ==
    [][/\ Built => hm' = hm
       /\ \A i \in 1..Len(results') : results'[i] = results'[1]]_vars

\* C7 witness: a second call has returned, with a path found.
C7_Witness ==
    /\ Len(results) >= 2
    /\ results[2].tag = "returned"
    /\ results[2].val # None
    /\ results[2].val # Some(0)

\* C8 (as claimed): on every Field2D the constructors and mutators produce,
\* the number of stored values is a multiple of the width and equals
\* height() * width().
C8_FieldInvariant ==
    (fstate = "live" /\ field.width > 0) =>
        /\ Len(field.values) % field.width = 0
        /\ Height(field) * Width(field) = Len(field.values)

\* C9: a read of (x, y) panics when x >= width or y >= height and otherwise
\* returns the value stored at linear index y * width + x.
C9_IndexBounds ==
    call.name = "index" =>
        LET x == call.args[1]
            y == call.args[2]
        IN IF x >= field.width THEN call.out = Panicked
           ELSE IF y >= Len(field.values) \div field.width THEN call.out = Panicked
           ELSE call.out = Returned(field.values[y * field.width + x + 1])

\* C9 witness: a read whose x is out of range while x + y * width still lies
\* inside the stored values has panicked.
C9_Witness ==
    /\ call.name = "index"
    /\ field.width > 0
    /\ call.args[1] >= field.width
    /\ call.args[1] + call.args[2] * field.width < Len(field.values)
    /\ call.out = Panicked

\* parse was the last call and its rows all have one length, at least 1.
ParsedRectangle ==
    /\ call.name = "parse"
    /\ call.args # <<>>
    /\ call.args[1] >= 1
    /\ \A y \in 1..Len(call.args) : call.args[y] = call.args[1]

\* C10: parse of n >= 1 rows of one length w >= 1 returns a grid of width w
\* and height n whose cell (x, y) is the x-th value parsed for the y-th row.
C10_ParseRectangle ==
    ParsedRectangle =>
        /\ call.out # Returned(None)
        /\ Width(field) = call.args[1]
        /\ Height(field) = Len(call.args)
        /\ \A x \in 0..(call.args[1] - 1), y \in 0..(Len(call.args) - 1) :
              Index(field, <<x, y>>) = Returned(Label(x, y))

\* C10 witness: parse has returned a grid for two rows of two values.
C10_Witness == ParsedRectangle /\ call.args = <<2, 2>> /\ fstate = "live"

\* C11: parse returns None exactly when it is given no row at all; given at
\* least one row it returns a grid whose width is the length of the first row.
C11_ParseNoneIffEmpty ==
    call.name = "parse" =>
        /\ (call.out = Returned(None)) <=> (call.args = <<>>)
        /\ call.args # <<>> =>
              /\ fstate = "live"
              /\ call.out = Returned(Some(field))
              /\ Width(field) = call.args[1]

\* C11 witness: parse was given an empty first row followed by a row of two
\* values, and has returned a grid of width 0.
C11_Witness ==
    /\ call.name = "parse"
    /\ call.args = <<0, 2>>
    /\ fstate = "live"
    /\ Width(field) = 0

\* C12: parse never returns a grid whose number of stored values differs from
\* its width times the number of rows it was given; rows of differing lengths
\* are rejected.
C12_ParseRejectsRagged ==
    (call.name = "parse" /\ call.out # Returned(None)) =>
        Len(call.out.val[1].values) = Width(call.out.val[1]) * Len(call.args)

\* C13: new_with_value(w, h, v) and new_empty(w, h) return a grid with
\* width() = w and height() = h whose every cell (x, y), x < w, y < h, is v,
\* respectively T::default().
C13_EagerAllocation ==
    call.name \in {"new_with_value", "new_empty"} =>
        LET w == call.args[1]
            h == call.args[2]
            v == IF call.name = "new_empty" THEN 0 ELSE call.args[3]
        IN /\ Width(field) = w
           /\ ~HeightPanics(field)
           /\ Height(field) = h
           /\ \A cx \in 0..(w - 1), cy \in 0..(h - 1) :
                 Index(field, <<cx, cy>>) = Returned(v)

\* The step of an add_row call.
AddRowStep == call'.name = "add_row" /\ nops' = nops + 1

\* C14: add_row makes height() one larger, leaves width() and every cell
\* there was as they were, and every cell of the new last row is T::default().
C14_AddRowFrame ==
    [][AddRowStep =>
          /\ ~HeightPanics(field)
          /\ Width(field') = Width(field)
          /\ Height(field') = Height(field) + 1
          /\ \A cx \in 0..(Width(field) - 1) :
                Index(field', <<cx, Height(field)>>) = Returned(0)
          /\ \A cx \in 0..(Width(field) - 1), cy \in 0..(Height(field) - 1) :
                Index(field', <<cx, cy>>) = Index(field, <<cx, cy>>)]_nops

\* iter_with_position was called on a grid as parse returned it for rows of
\* one length.
IteratedParsedRectangle ==
    /\ call.name = "iter_with_position"
    /\ ctor.name = "parse"
    /\ nops = 0
    /\ ctor.args # <<>>
    /\ \A y \in 1..Len(ctor.args) : ctor.args[y] = ctor.args[1]

\* C19: on a grid parsed from n rows of one length w, iter_with_position
\* yields n * w items, the k-th being ((k % w, k / w), value); cut into
\* chunks of w the values are the rows parse was given, and every value is
\* the one the index operator returns for its position.
C19_IterWithPositionRoundTrip ==
    IteratedParsedRectangle =>
        LET w == ctor.args[1]
            n == Len(ctor.args)
            rows == RowsOf(ctor.args)
        IN /\ call.out # Panicked
           /\ Len(call.out.val) = n * w
           /\ \A k \in 0..(n * w - 1) :
                 /\ call.out.val[k + 1][1] = <<k % w, k \div w>>
                 /\ Index(field, call.out.val[k + 1][1])
                       = Returned(call.out.val[k + 1][2])
           /\ \A y \in 1..n :
                 [i \in 1..w |-> call.out.val[(y - 1) * w + i][2]]
                    = LabelRow(rows[y])

\* C19 witness: iter_with_position has run over a grid parsed from two rows
\* of two values and yielded four items.
C19_Witness ==
    /\ IteratedParsedRectangle
    /\ ctor.args = <<2, 2>>
    /\ call.out # Panicked
    /\ Len(call.out.val) = 4

\* The coordinates the next() calls on `iter` have yielded, in order.
Items ==
    LET IsSome(v) == v # None
        some == SelectSeq(yields, IsSome)
    IN [i \in 1..Len(some) |-> some[i][1]]

Range(s) == {s[i] : i \in 1..Len(s)}

\* c is a cell of `field`, whose width is not 0.
InGrid(c) ==
    /\ c[1] >= 0 /\ c[1] < Width(field)
    /\ c[2] >= 0 /\ c[2] < Height(field)

\* The last next() call on `iter` returned None.
Exhausted ==
    /\ istate = "live"
    /\ yields # <<>>
    /\ yields[Len(yields)] = None

\* neighbors (diag = FALSE) or neighbors_diag (diag = TRUE) was called for a
\* cell of a grid of width and height at least 1.
QueryInGrid(diag) ==
    /\ istate # "none"
    /\ ~HeightPanics(field)
    /\ Height(field) >= 1
    /\ iter.diag = diag
    /\ InGrid(iter.pos)

\* C15: for a cell (x, y) of a grid, neighbors(x, y) yields exactly the cells
\* of the grid among (x+1, y), (x, y+1), (x-1, y), (x, y-1), each once: never
\* more than 4, fewer than 4 exactly on an edge of the grid, and 2 for a
\* corner of a grid wider and higher than 1.
C15_NeighborsOrthogonal ==
    QueryInGrid(FALSE) =>
        LET px == iter.pos[1]
            py == iter.pos[2]
            w == Width(field)
            h == Height(field)
            expected == {c \in {<<px + 1, py>>, <<px, py + 1>>,
                                <<px - 1, py>>, <<px, py - 1>>} : InGrid(c)}
        IN /\ istate = "live"
           /\ Len(Items) <= 4
           /\ Exhausted =>
                 /\ Range(Items) = expected
                 /\ Len(Items) = Cardinality(expected)
                 /\ (Len(Items) < 4)
                       <=> (px = 0 \/ px = w - 1 \/ py = 0 \/ py = h - 1)
                 /\ (/\ px \in {0, w - 1} /\ py \in {0, h - 1}
                     /\ w > 1 /\ h > 1) => Len(Items) = 2

\* C15 witness: the iterator neighbors made for a cell off every edge has
\* yielded four cells and then None.
C15_Witness ==
    /\ QueryInGrid(FALSE)
    /\ Exhausted
    /\ Len(Items) = 4

\* C16: for a cell (x, y) of a grid, neighbors_diag(x, y) yields every cell
\* neighbors(x, y) yields, the diagonal (x+dx, y+dy) exactly when x+dx is a
\* column and y+dy a row of the grid, and in all exactly the cells of the grid
\* at Chebyshev distance 1 from (x, y), each once.
C16_NeighborsDiag ==
    (QueryInGrid(TRUE) /\ Exhausted) =>
        LET px == iter.pos[1]
            py == iter.pos[2]
            w == Width(field)
            h == Height(field)
            around == {c \in ((px - 1)..(px + 1)) \X ((py - 1)..(py + 1)) :
                          c # iter.pos /\ InGrid(c)}
        IN /\ Range(Neighbors(field, px, py)) \subseteq Range(Items)
           /\ \A dx \in {-1, 1}, dy \in {-1, 1} :
                 (<<px + dx, py + dy>> \in Range(Items))
                    <=> (px + dx \in 0..(w - 1) /\ py + dy \in 0..(h - 1))
           /\ Range(Items) = around
           /\ Len(Items) = Cardinality(around)

\* C16 witness: the iterator neighbors_diag made for a cell off every edge has
\* yielded eight cells and then None.
C16_Witness ==
    /\ QueryInGrid(TRUE)
    /\ Exhausted
    /\ Len(Items) = 8

\* C17: every coordinate neighbors or neighbors_diag yields is a cell of the
\* grid, whatever origin the iterator was made for, one outside the grid
\* included.
C17_YieldsInGrid ==
    (istate # "none" /\ ~HeightPanics(field) /\ Height(field) >= 1) =>
        \A i \in 1..Len(Items) : InGrid(Items[i])

\* The directions in the order the specification gives them, as (dx, dy):
\* right, down, left, up, then up-left, up-right, down-right, down-left.
Directions(diag) ==
    << <<1, 0>>, <<0, 1>>, <<-1, 0>>, <<0, -1>> >>
    \o (IF diag THEN << <<-1, -1>>, <<1, -1>>, <<1, 1>>, <<-1, 1>> >> ELSE <<>>)

Candidates(pos, diag) ==
    [k \in 1..Len(Directions(diag)) |->
        <<pos[1] + Directions(diag)[k][1], pos[2] + Directions(diag)[k][2]>>]

\* C18: the iterator takes every direction once, in the order right, down,
\* left, up and, for neighbors_diag only, up-left, up-right, down-right,
\* down-left: what it yields is in that order and has every cell of the grid
\* in those directions; after at most 4 (8) yields it is Done, next() returns
\* None, and None again on every later call; an iterator made anew for the
\* same origin yields the same sequence.
C18_IterOrder ==
    istate = "live" =>
        LET cands == Candidates(iter.pos, iter.diag)
            Yielded(c) == c \in Range(Items)
        IN /\ \A i \in 1..Len(yields), j \in 1..Len(yields) :
                 (i < j /\ yields[i] = None) => yields[j] = None
           /\ Len(Items) <= Len(cands)
           /\ Len(yields) > Len(cands) => yields[Len(cands) + 1] = None
           /\ Items = SelectSeq(cands, Yielded)
           /\ ~iter.diag => iter.state \in {"Right", "Down", "Left", "Up", "Done"}
           /\ Exhausted =>
                 /\ iter.state = "Done"
                 /\ \A k \in 1..Len(cands) :
                       (Height(field) >= 1 /\ InGrid(cands[k])) => Yielded(cands[k])
           /\ prev # None =>
                 \A i \in 1..Len(yields) :
                    i <= Len(prev[1]) => yields[i] = prev[1][i]

\* C18 witness: an iterator neighbors_diag made a second time for one origin
\* has yielded eight cells and then None twice, as far as the first one was
\* taken.
C18_Witness ==
    /\ QueryInGrid(TRUE)
    /\ istate = "live"
    /\ prev # None
    /\ Len(prev[1]) = Len(yields)
    /\ Len(Items) = 8
    /\ Len(yields) = 10
    /\ yields[9] = None

\* The cycles the first n instructions of prog take, by the puzzle's rule:
\* one for noop, two for addx.
RECURSIVE EndCycle(_, _)
EndCycle(prog, n) ==
    IF n = 0 THEN 0
    ELSE EndCycle(prog, n - 1) + (IF prog[n].op = "noop" THEN 1 ELSE 2)

\* The sum of the arguments of the addx among the first n instructions of
\* prog that have completed before cycle k.
RECURSIVE AddedBefore(_, _, _)
AddedBefore(prog, n, k) ==
    IF n = 0 THEN 0
    ELSE AddedBefore(prog, n - 1, k)
         + (IF prog[n].op = "addx" /\ EndCycle(prog, n) < k
            THEN prog[n].arg ELSE 0)

\* C20: run_program starts with X = 1 and emits X once per cycle, a noop
\* taking one cycle and an addx two, the addition taking effect after them:
\* the output of the instructions run so far has one value per noop and two
\* per addx, and its k-th value is 1 plus the arguments of the addx completed
\* before cycle k.
C20_RunProgram ==
    /\ Len(out) = EndCycle(program, ip)
    /\ \A k \in 1..Len(out) : out[k] = 1 + AddedBefore(program, ip, k)

\* C20 witness: noop, addx 3, addx -5 has run and emitted 1, 1, 1, 4, 4.
C20_Witness ==
    /\ program = <<NoOp, AddX(3), AddX(-5)>>
    /\ ip = Len(program)
    /\ out = <<1, 1, 1, 4, 4>>

\* A search is inside its while loop.
Searching == pc \in {"path_search", "find_all"}

\* The step is one evaluation of `heap.pop()` returning an entry, which
\* taken' holds.
PopStep == Searching /\ heap # <<>>

\* The recorded distance of position p in the map d.
Dist(d, p) == Elevation(d, p)

HeapAboveDistances(h, d) ==
    \A i \in 1..Len(h) : h[i].cost >= Dist(d, h[i].position)

\* C21: in both searches every heap entry (cost, position) has cost >=
\* distances[position], no step of the loop makes a distance larger, and the
\* step that pops an entry with cost > distances[position] writes no distance
\* and pushes no entry.
C21_HeapAboveDistances ==
    [][Searching =>
          /\ HeapAboveDistances(heap, distances)
          /\ pc' = pc =>
                /\ HeapAboveDistances(heap', distances')
                /\ \A c \in Cells(hm.map) : Dist(distances', c) <= Dist(distances, c)
          /\ (PopStep /\ taken'[1].cost > Dist(distances, taken'[1].position)) =>
                /\ distances' = distances
                /\ Len(heap') = Len(heap) - 1
                /\ Range(heap') \subseteq Range(heap)]_vars

\* C21 witness: a search under way has relaxed a cell to a distance of 2 or
\* more and holds its entry in the heap.
C21_Witness ==
    /\ Searching
    /\ \E i \in 1..Len(heap) :
          /\ heap[i].cost >= 2
          /\ heap[i].cost = Dist(distances, heap[i].position)

\* (usize, usize) compared as tuples: first the x, then the y.
LexLess(p, q) == p[1] < q[1] \/ (p[1] = q[1] /\ p[2] < q[2])

\* C22: every pop returns an entry of the heap of minimal cost, and among the
\* entries of that cost the one of the greatest coordinate; the costs popped
\* during one search never decrease.
C22_MinQueue ==
    [][PopStep =>
          /\ taken'[1] \in Range(heap)
          /\ \A e \in Range(heap) :
                /\ e.cost >= taken'[1].cost
                /\ e.cost = taken'[1].cost
                      => ~LexLess(taken'[1].position, e.position)
          /\ taken # None => taken'[1].cost >= taken[1].cost]_vars

\* C22 witness: the entry popped last was one of two entries of its cost, at
\* least 1.
C22_Witness ==
    /\ Searching
    /\ taken # None
    /\ taken[1].cost >= 1
    /\ \E i \in 1..Len(heap) : heap[i].cost = taken[1].cost

\* The greatest cost a path in the heightmap can have.
MaxCost == Width(hm.map) * Height(hm.map) - 1

CostsBounded(h, d) ==
    /\ \A i \in 1..Len(h) : h[i].cost <= MaxCost
    /\ \A c \in Cells(hm.map) : Dist(d, c) = UsizeMax \/ Dist(d, c) <= MaxCost

\* C23: in both searches every cost in the heap and every distance written
\* is at most width * height - 1, so cost + 1 is never taken of usize::MAX and
\* never wraps; a cell that was given a distance never holds usize::MAX
\* again.
C23_CostsBounded ==
    [][Searching =>
          /\ CostsBounded(heap, distances)
          /\ PopStep => /\ taken'[1].cost <= MaxCost
                        /\ taken'[1].cost + 1 <= UsizeMax
          /\ pc' = pc =>
                /\ CostsBounded(heap', distances')
                /\ \A c \in Cells(hm.map) :
                      Dist(distances, c) # UsizeMax
                         => Dist(distances', c) # UsizeMax]_vars

\* C23 witness: a search under way has written the greatest distance there
\* can be in a heightmap of three cells or more.
C23_Witness ==
    /\ Searching
    /\ MaxCost >= 2
    /\ \E c \in Cells(hm.map) : Dist(distances, c) = MaxCost

AtMostOncePerCell(h) ==
    /\ Len(h) <= Width(hm.map) * Height(hm.map)
    /\ \A i \in 1..Len(h), j \in 1..Len(h) :
          h[i].position = h[j].position => i = j

\* The entries in the heap and the cells still to be given a distance.
LoopMeasure(h, d) ==
    Len(h) + Cardinality({c \in Cells(hm.map) : Dist(d, c) = UsizeMax})

\* C28: in both searches a distance is written only over usize::MAX and an
\* entry is pushed only for a cell whose distance was usize::MAX, so every
\* cell is written and pushed at most once; no popped entry has cost >
\* distances[position]; the heap never holds more than width * height entries,
\* nor two for one cell; and the loop is bounded: the entries in the heap and
\* the cells without a distance are at most width * height together, and one
\* fewer after every iteration.
C28_WriteOnce ==
    [][Searching =>
          /\ AtMostOncePerCell(heap)
          /\ LoopMeasure(heap, distances) <= Width(hm.map) * Height(hm.map)
          /\ PopStep =>
                ~(taken'[1].cost > Dist(distances, taken'[1].position))
          /\ pc' = pc =>
                /\ PopStep
                /\ AtMostOncePerCell(heap')
                /\ LoopMeasure(heap', distances')
                      = LoopMeasure(heap, distances) - 1
                /\ \A c \in Cells(hm.map) :
                      Dist(distances', c) # Dist(distances, c)
                         => Dist(distances, c) = UsizeMax
                /\ \A e \in Range(heap') \ Range(heap) :
                      Dist(distances, e.position) = UsizeMax]_vars

\* C28 witness: a search under way holds three entries in its heap.
C28_Witness ==
    /\ Searching
    /\ Len(heap) >= 3

\* Two knots are on one cell, side by side or diagonal to one another.
Near(a, b) == Abs(a[1] - b[1]) <= 1 /\ Abs(a[2] - b[2]) <= 1

Sign(n) == IF n < 0 THEN -1 ELSE IF n > 0 THEN 1 ELSE 0

\* The step of an indexed assignment.
IndexMutStep == call'.name = "index_mut" /\ nops' = nops + 1

\* C24: an indexed assignment field[(x, y)] = v with x < width and
\* y < height changes the cell (x, y) to v, which a following read returns,
\* and leaves every other stored value, the width and the height as they
\* were; with x >= width or y >= height it panics and the grid is unchanged.
C24_IndexAssignFrame ==
    [][IndexMutStep =>
          LET ax == call'.args[1]
              ay == call'.args[2]
              av == call'.args[3]
          IN IF ax < Width(field) /\ ay < Len(field.values) \div field.width
             THEN /\ call'.out = Returned(0)
                  /\ Index(field', <<ax, ay>>) = Returned(av)
                  /\ Width(field') = Width(field)
                  /\ Height(field') = Height(field)
                  /\ Len(field'.values) = Len(field.values)
                  /\ \A k \in 1..Len(field.values) :
                        k # ay * field.width + ax + 1 =>
                            field'.values[k] = field.values[k]
             ELSE /\ call'.out = Panicked
                  /\ field' = field]_nops

\* C24 witness: the cell (1, 1) of a grid of two rows of two values was
\* assigned a value that the cell (0, 0) does not hold.
C24_Witness ==
    /\ call.name = "index_mut"
    /\ call.args[1] = 1 /\ call.args[2] = 1
    /\ call.out = Returned(0)
    /\ Width(field) = 2 /\ Len(field.values) = 4
    /\ Index(field, <<1, 1>>) = Returned(call.args[3])
    /\ Index(field, <<0, 0>>) # Returned(call.args[3])

\* The thrower and the receiver of every throw of a log, in order.
ThrowTargets(log) == [k \in 1..Len(log) |-> <<log[k].from, log[k].to>>]

\* The number of items the monkeys hold together.
RECURSIVE Held(_)
Held(ms) == IF ms = <<>> THEN 0 ELSE Len(Head(ms).items) + Held(Tail(ms))

\* C27: every turn played with take_turn_ring_op throws each item to the
\* monkey the game with unreduced worry levels throws it to: after the turn
\* the throws made so far and the counts of the monkeys are those of the
\* unreduced game, every monkey holds as many items, each congruent modulo
\* the lcm to its unreduced worry level, and the monkeys together hold as
\* many items as before; no product leaves usize.
C27_RingOpSameThrows ==
    [][(mstate = "playing" /\ turns' = turns + 1) =>
          /\ mstate' = "playing"
          /\ ThrowTargets(thrown') = ThrowTargets(exact'.thrown)
          /\ monkey_throw_counts' = exact'.counts
          /\ Held(monkeys') = Held(monkeys)
          /\ \A n \in 1..Len(monkeys') :
                /\ Len(monkeys'[n].items) = Len(exact'.monkeys[n].items)
                /\ \A k \in 1..Len(monkeys'[n].items) :
                      monkeys'[n].items[k] % lcm
                          = exact'.monkeys[n].items[k] % lcm]_turns

\* C27 witness: in the third turn or later a monkey has inspected an item
\* whose stored worry level was not the unreduced one, and both monkeys have
\* thrown.
C27_Witness ==
    /\ mstate = "playing"
    /\ turns >= 3
    /\ \A n \in 1..Len(monkeys) : monkey_throw_counts[n] >= 1
    /\ \E j \in 1..Len(thrown) :
          thrown[j].inspected # exact.thrown[j].inspected

\* C29 (as claimed): on every grid new_empty, new_with_value or parse has
\* returned, height() and len() return a value: the division by width is
\* never one by zero.
C29_HeightTotal ==
    (fstate = "live" /\ nops = 0
        /\ ctor.name \in {"new_empty", "new_with_value", "parse"}) =>
        /\ ~HeightPanics(field)
        /\ FieldLen(field) = Width(field) * Height(field)

\* C25: in simulate_movement, head and tail starting on one cell, the tail is
\* within one cell of the head on both axes after every step of the head,
\* straight or diagonal; it moves exactly when the new head does not touch it,
\* then by at most one cell per axis and on every axis on which it is off the
\* head towards the head; the panicking arm is never taken.
C25_TailFollows ==
    [][(rstate = "simulate" /\ dirs # <<>>) =>
          /\ Near(head, tail)
          /\ rstate' = "simulate"
          /\ head' = Apply(Head(dirs), head)
          /\ Near(head', tail')
          /\ (tail' # tail) <=> ~Near(head', tail)
          /\ (emitted' # None) <=> (tail' # tail)
          /\ tail' # tail =>
                /\ tail' = Apply(emitted'[1], tail)
                /\ \A i \in {1, 2} : tail'[i] - tail[i] = Sign(head'[i] - tail[i])]_vars

\* C25 witness: the head has gone four cells up and right diagonally and the
\* tail has followed it diagonally.
C25_Witness ==
    /\ rstate = "simulate"
    /\ head = <<4, 4>>
    /\ tail = <<3, 3>>
    /\ emitted = Some("UpRight")

\* The tail rule of the puzzle: a knot not near its leader moves one cell
\* towards it on every axis on which they differ.
Follow(leader, follower) ==
    IF Near(leader, follower) THEN follower
    ELSE <<follower[1] + Sign(leader[1] - follower[1]),
           follower[2] + Sign(leader[2] - follower[2])>>

\* The rope of knots 0..n, as the sequence of their Locations, after the head
\* has moved by dir and every other knot has followed its leader in turn.
RECURSIVE PullRope(_, _, _)
PullRope(knots, dir, k) ==
    IF k = 1 THEN [knots EXCEPT ![1] = Apply(dir, knots[1])]
    ELSE LET pulled == PullRope(knots, dir, k - 1)
         IN [pulled EXCEPT ![k] = Follow(pulled[k - 1], knots[k])]

\* The cells the last knot of the rope is on after each of the moves.
RECURSIVE LastKnotCells(_, _)
LastKnotCells(knots, moves) ==
    IF moves = <<>> THEN {}
    ELSE LET pulled == PullRope(knots, Head(moves), Len(knots))
         IN {pulled[Len(knots)]} \cup LastKnotCells(pulled, Tail(moves))

\* The cells knot n of a rope of knots 0..n visits, the origin included, all
\* knots simulated together step by step.
JointVisited(moves, n) ==
    LastKnotCells([k \in 1..(n + 1) |-> <<0, 0>>], moves) \cup {<<0, 0>>}

\* C26: part2 returns the number of cells visited, the origin included, by
\* knot 9 of a rope of ten knots simulated together by the tail rule: the
\* chain of nine simulations gives knot 9 the same set of cells.
C26_ChainIsRope ==
    p2rope # None =>
        /\ p2rope[1] # Panicked
        /\ p2rope[1].val.visited = JointVisited(UnfoldAll(instrs), FollowerSims)
        /\ p2rope[1].val.len
              = Cardinality(JointVisited(UnfoldAll(instrs), FollowerSims))

\* C26 witness: part2 has returned for a head that turned on its way and a
\* tenth knot that left the line it started on.
C26_Witness ==
    /\ p2rope # None
    /\ p2rope[1] # Panicked
    /\ p2rope[1].val.len >= 3
    /\ \E c \in p2rope[1].val.visited : c[1] # 0 /\ c[2] # 0

====
